---- MODULE Spec2Model ----
(***************************************************************************)
(* The vault program of examples/example-solana.rs: one State account at   *)
(* the address derived from the seed "state", and the three instructions   *)
(* initialize, deposit and withdraw.  Each instruction is one atomic       *)
(* transaction: the account constraints of its Accounts struct are checked *)
(* first, then the handler body runs; a failure at any point reverts every *)
(* effect of the transaction, the token transfer included.                 *)
(***************************************************************************)
EXTENDS Integers, Sequences, FiniteSets, TLC

----------------------------------------------------------------------------
(* Bounds of the model. *)

\* Width in bits of the model's u64 (State.total_deposited, token amounts).
U64Bits == 3

\* initialize is called with the bumps 255 - BumpSpan .. 255 of the u8 range.
BumpSpan == 2

----------------------------------------------------------------------------
(* Values. *)

\* u64::MAX at the model's width.
U64_MAX == 2 ^ U64Bits - 1

\* u8::MAX: the range of the bump argument and of State.bump.
U8_MAX == 255

\* Signing keys and program-derived addresses are both Pubkeys.
User(n) == [kind |-> "user", id |-> n]

Pda(b) == [kind |-> "pda", id |-> b]

NoKey == [kind |-> "none", id |-> 0]

Alice == User(1)

Bob == User(2)

Signers == {Alice, Bob}

BumpInputs == (U8_MAX - BumpSpan) .. U8_MAX

Amounts == {0, 1, U64_MAX - 1, U64_MAX}

----------------------------------------------------------------------------
(* The account-model runtime: program-derived addresses of this program    *)
(* (declare_id! on line 4) for the seed "state".                           *)

\* Bumps b of 240..255 for which sha256("state" ++ [b] ++ program_id ++
\* "ProgramDerivedAddress") is a point of the ed25519 curve, so that
\* create_program_address fails.
OnCurveBumps == {255, 251, 250, 249, 247, 246, 245, 242}

\* Pubkey::create_program_address(&[b"state", &[bump]], program_id):
\* the address for an off-curve hash, distinct per bump; NoKey for an error.
derive_signing_identity(bump) ==
    IF bump \in OnCurveBumps THEN NoKey ELSE Pda(bump)

\* Pubkey::find_program_address(&[b"state"], program_id).1: the highest bump
\* whose address is valid (the `bump` of the init constraint, line 76).
canonical_bump ==
    CHOOSE b \in 240 .. U8_MAX :
        /\ derive_signing_identity(b) # NoKey
        /\ \A c \in (b + 1) .. U8_MAX : derive_signing_identity(c) = NoKey

\* The address of the State account: seeds = [b"state"], canonical bump.
state_key == derive_signing_identity(canonical_bump)

----------------------------------------------------------------------------
(* The token program. *)

TokenAccounts == {"user_tokens", "vault_tokens"}

\* TokenAccount.owner: Alice holds the users' token account; the vault's
\* token account is owned by the State PDA.
token_owner(acct) ==
    CASE acct = "user_tokens" -> Alice
      [] acct = "vault_tokens" -> state_key

\* token::transfer(cpi_ctx, amount), all or nothing.  call.signers are the
\* keys that sign the inner instruction.
token_transfer(bal, call) ==
    IF bal[call.from] < call.amount
    THEN [result |-> "InsufficientFunds", balance |-> bal]
    ELSE IF ~(token_owner(call.from) = call.authority
              /\ call.authority \in call.signers)
    THEN [result |-> "TransferUnauthorized", balance |-> bal]
    ELSE IF call.from = call.to \/ call.amount = 0
    THEN [result |-> "Ok", balance |-> bal]
    ELSE [result |-> "Ok",
          balance |-> [bal EXCEPT ![call.from] = @ - call.amount,
                                  ![call.to] = @ + call.amount]]

----------------------------------------------------------------------------
(* State. *)

VARIABLES
    state,            \* the State account: initialized, authority, bump, total_deposited
    balance,          \* TokenAccount.amount of every token account
    overflow_checks,  \* the build profile: TRUE if `+` panics on overflow, FALSE if it wraps
    last              \* the latest transaction: instruction, signer, arguments, accounts, result, CPI calls

vars == <<state, balance, overflow_checks, last>>

\* The State account before `init` has created it.
Uninitialized ==
    [initialized |-> FALSE, authority |-> NoKey, bump |-> 0, total_deposited |-> 0]

Init ==
    /\ state = Uninitialized
    /\ balance = [a \in TokenAccounts |->
                    IF a = "user_tokens" THEN U64_MAX ELSE 0]
    /\ overflow_checks \in BOOLEAN
    /\ last = [op |-> "none", caller |-> NoKey, bump |-> 0, amount |-> 0,
               user_token_account |-> "none", vault_token_account |-> "none",
               result |-> "Ok", cpi |-> <<>>]

----------------------------------------------------------------------------
(* Account constraints: what the runtime checks before a handler runs. *)

\* Initialize with init_if_needed in place of init: an existing account is
\* accepted.
Initialize_if_needed(st) ==
    "Ok"

\* #[account(init, payer = authority, seeds = [b"state"], bump)]: the account
\* is created at state_key, which fails when it exists already.
Initialize(st) ==
    IF st.initialized THEN "AlreadyInitialized" ELSE "Ok"

\* Deposit taking the state as an unchecked account: neither its existence
\* nor its address is verified.
Deposit_unchecked(st) ==
    "Ok"

\* Account<State> must exist; #[account(mut, seeds = [b"state"], bump =
\* state.bump)] re-derives the address from the stored bump.
Deposit(st) ==
    IF ~st.initialized THEN "NotFound"
    ELSE IF derive_signing_identity(st.bump) # state_key THEN "ConstraintSeeds"
    ELSE "Ok"

Withdraw(st) ==
    IF ~st.initialized THEN "NotFound"
    ELSE IF derive_signing_identity(st.bump) # state_key THEN "ConstraintSeeds"
    ELSE "Ok"

----------------------------------------------------------------------------
(* Handlers: the result, the State account and the token balances after    *)
(* the handler, and the token::transfer calls it made.                     *)

\* initialize storing the key of the wrong account (ctx.accounts.state) as the
\* authority.
initialize_wrong_key(st, bal, authority, bump) ==
    [result |-> "Ok",
     state |-> [initialized |-> TRUE, authority |-> state_key,
                bump |-> bump, total_deposited |-> 0],
     balance |-> bal,
     cpi |-> <<>>]

\* initialize without `state.bump = bump`: the bump field keeps its zero.
initialize_drops_bump(st, bal, authority, bump) ==
    [result |-> "Ok",
     state |-> [initialized |-> TRUE, authority |-> authority,
                bump |-> 0, total_deposited |-> 0],
     balance |-> bal,
     cpi |-> <<>>]

initialize(st, bal, authority, bump) ==
    [result |-> "Ok",
     state |-> [initialized |-> TRUE, authority |-> authority,
                bump |-> bump, total_deposited |-> 0],
     balance |-> bal,
     cpi |-> <<>>]

\* deposit without the `?` on token::transfer: the transfer's error is dropped
\* and the total is incremented all the same.
deposit_unchecked_transfer(st, bal, checks, user, user_token_account, vault_token_account, amount) ==
    LET cpi_accounts == [from |-> user_token_account,
                         to |-> vault_token_account,
                         authority |-> user,
                         signers |-> {user},
                         seeds |-> <<>>,
                         amount |-> amount]
        t == token_transfer(bal, cpi_accounts)
        sum == st.total_deposited + amount
    IN  IF sum > U64_MAX /\ checks
        THEN [result |-> "Panic", state |-> st, balance |-> bal,
              cpi |-> <<cpi_accounts>>]
        ELSE [result |-> "Ok",
              state |-> [st EXCEPT !.total_deposited = sum % (U64_MAX + 1)],
              balance |-> t.balance,
              cpi |-> <<cpi_accounts>>]

\* deposit that calls token::transfer a second time when the first call fails.
deposit_retrying(st, bal, checks, user, user_token_account, vault_token_account, amount) ==
    LET cpi_accounts == [from |-> user_token_account,
                         to |-> vault_token_account,
                         authority |-> user,
                         signers |-> {user},
                         seeds |-> <<>>,
                         amount |-> amount]
        t == token_transfer(bal, cpi_accounts)
        sum == st.total_deposited + amount
    IN  IF t.result # "Ok"
        THEN [result |-> t.result, state |-> st, balance |-> bal,
              cpi |-> <<cpi_accounts, cpi_accounts>>]
        ELSE IF sum > U64_MAX /\ checks
        THEN [result |-> "Panic", state |-> st, balance |-> bal,
              cpi |-> <<cpi_accounts>>]
        ELSE [result |-> "Ok",
              state |-> [st EXCEPT !.total_deposited = sum % (U64_MAX + 1)],
              balance |-> t.balance,
              cpi |-> <<cpi_accounts>>]

deposit(st, bal, checks, user, user_token_account, vault_token_account, amount) ==
    LET cpi_accounts == [from |-> user_token_account,
                         to |-> vault_token_account,
                         authority |-> user,
                         signers |-> {user},
                         seeds |-> <<>>,
                         amount |-> amount]
        t == token_transfer(bal, cpi_accounts)
        sum == st.total_deposited + amount
    IN  IF t.result # "Ok"
        THEN [result |-> t.result, state |-> st, balance |-> bal,
              cpi |-> <<cpi_accounts>>]
        ELSE IF sum > U64_MAX /\ checks
        THEN [result |-> "Panic", state |-> st, balance |-> bal,
              cpi |-> <<cpi_accounts>>]
        ELSE [result |-> "Ok",
              state |-> [st EXCEPT !.total_deposited = sum % (U64_MAX + 1)],
              balance |-> t.balance,
              cpi |-> <<cpi_accounts>>]

\* withdraw that also takes the amount off total_deposited (saturating).
withdraw_decrementing(st, bal, authority, user_token_account, vault_token_account, amount) ==
    IF authority # st.authority
    THEN [result |-> "Unauthorized", state |-> st, balance |-> bal, cpi |-> <<>>]
    ELSE
    LET pda == derive_signing_identity(st.bump)
        cpi_accounts == [from |-> vault_token_account,
                         to |-> user_token_account,
                         authority |-> state_key,
                         signers |-> {authority} \cup
                                     (IF pda = NoKey THEN {} ELSE {pda}),
                         seeds |-> <<st.bump>>,
                         amount |-> amount]
        t == token_transfer(bal, cpi_accounts)
    IN  [result |-> t.result,
         state |-> [st EXCEPT !.total_deposited =
                        IF @ >= amount THEN @ - amount ELSE 0],
         balance |-> t.balance,
         cpi |-> <<cpi_accounts>>]

\* withdraw whose transfer is authorized by the human authority
\* (CpiContext::new, authority: ctx.accounts.authority).
withdraw_authority_signs(st, bal, authority, user_token_account, vault_token_account, amount) ==
    IF authority # st.authority
    THEN [result |-> "Unauthorized", state |-> st, balance |-> bal, cpi |-> <<>>]
    ELSE
    LET cpi_accounts == [from |-> vault_token_account,
                         to |-> user_token_account,
                         authority |-> authority,
                         signers |-> {authority},
                         seeds |-> <<>>,
                         amount |-> amount]
        t == token_transfer(bal, cpi_accounts)
    IN  [result |-> t.result, state |-> st, balance |-> t.balance,
         cpi |-> <<cpi_accounts>>]

\* withdraw with the two token accounts of the Transfer exchanged.
withdraw_swapped_accounts(st, bal, authority, user_token_account, vault_token_account, amount) ==
    IF authority # st.authority
    THEN [result |-> "Unauthorized", state |-> st, balance |-> bal, cpi |-> <<>>]
    ELSE
    LET pda == derive_signing_identity(st.bump)
        cpi_accounts == [from |-> user_token_account,
                         to |-> vault_token_account,
                         authority |-> state_key,
                         signers |-> {authority} \cup
                                     (IF pda = NoKey THEN {} ELSE {pda}),
                         seeds |-> <<st.bump>>,
                         amount |-> amount]
        t == token_transfer(bal, cpi_accounts)
    IN  [result |-> t.result, state |-> st, balance |-> t.balance,
         cpi |-> <<cpi_accounts>>]

withdraw(st, bal, authority, user_token_account, vault_token_account, amount) ==
    IF authority # st.authority
    THEN [result |-> "Unauthorized", state |-> st, balance |-> bal, cpi |-> <<>>]
    ELSE
    LET pda == derive_signing_identity(st.bump)
        cpi_accounts == [from |-> vault_token_account,
                         to |-> user_token_account,
                         authority |-> state_key,
                         signers |-> {authority} \cup
                                     (IF pda = NoKey THEN {} ELSE {pda}),
                         seeds |-> <<st.bump>>,
                         amount |-> amount]
        t == token_transfer(bal, cpi_accounts)
    IN  [result |-> t.result, state |-> st, balance |-> t.balance,
         cpi |-> <<cpi_accounts>>]

----------------------------------------------------------------------------
(* Transactions. *)

\* A transaction that fails leaves every account as it was.
Commit(op, caller, bump, amount, user_token_account, vault_token_account, out) ==
    /\ state' = IF out.result = "Ok" THEN out.state ELSE state
    /\ balance' = IF out.result = "Ok" THEN out.balance ELSE balance
    /\ last' = [op |-> op, caller |-> caller, bump |-> bump, amount |-> amount,
                user_token_account |-> user_token_account,
                vault_token_account |-> vault_token_account,
                result |-> out.result, cpi |-> out.cpi]
    /\ UNCHANGED overflow_checks

Rejected(error) ==
    [result |-> error, state |-> state, balance |-> balance, cpi |-> <<>>]

InitializeTx ==
    \E authority \in Signers, bump \in BumpInputs :
        Commit("initialize", authority, bump, 0, "none", "none",
               IF Initialize(state) # "Ok" THEN Rejected(Initialize(state))
               ELSE initialize(state, balance, authority, bump))

DepositTx ==
    \E user \in Signers, user_token_account \in TokenAccounts,
       vault_token_account \in TokenAccounts, amount \in Amounts :
        Commit("deposit", user, 0, amount,
               user_token_account, vault_token_account,
               IF Deposit(state) # "Ok" THEN Rejected(Deposit(state))
               ELSE deposit(state, balance, overflow_checks, user,
                            user_token_account, vault_token_account, amount))

WithdrawTx ==
    \E authority \in Signers, user_token_account \in TokenAccounts,
       vault_token_account \in TokenAccounts, amount \in Amounts :
        Commit("withdraw", authority, 0, amount,
               user_token_account, vault_token_account,
               IF Withdraw(state) # "Ok" THEN Rejected(Withdraw(state))
               ELSE withdraw(state, balance, authority,
                             user_token_account, vault_token_account, amount))

Next == InitializeTx \/ DepositTx \/ WithdrawTx

Spec == Init /\ [][Next]_vars

----------------------------------------------------------------------------
(* Properties.  A step of Next is one transaction, and last' describes it.  *)

\* The result of the token::transfer call of the step's transaction, on the
\* balances before the step.
TransferResult == token_transfer(balance, last'.cpi[1]).result

\* C1: in an Active vault, withdraw by a caller other than State.authority
\* fails with Unauthorized, calls token::transfer zero times and changes no
\* token balance.
C1_StrangerWithdrawUnauthorized ==
    [][(last'.op = "withdraw" /\ state.initialized
            /\ last'.caller # state.authority)
        => (last'.result = "Unauthorized" /\ Len(last'.cpi) = 0
            /\ balance' = balance)]_vars

\* C2: total_deposited is the exact sum of the amounts of the deposits that
\* succeeded: it starts at 0, a successful deposit adds exactly its amount,
\* and no other transaction changes it.
C2_TotalIsExactSum ==
    [][/\ (~state.initialized /\ state'.initialized)
            => state'.total_deposited = 0
       /\ (state.initialized /\ last'.op = "deposit" /\ last'.result = "Ok")
            => state'.total_deposited = state.total_deposited + last'.amount
       /\ (state.initialized
            /\ ~(last'.op = "deposit" /\ last'.result = "Ok"))
            => state'.total_deposited = state.total_deposited]_vars

\* C3: a deposit whose transfer succeeds and whose amount would take
\* total_deposited past u64::MAX fails with Overflow and leaves
\* total_deposited unchanged.
C3_OverflowRejected ==
    [][(last'.op = "deposit" /\ Len(last'.cpi) = 1
            /\ TransferResult = "Ok"
            /\ state.total_deposited + last'.amount > U64_MAX)
        => (last'.result = "Overflow"
            /\ state'.total_deposited = state.total_deposited)]_vars

\* C4: initialize on an Active vault, by any caller with any bump, fails with
\* AlreadyInitialized and leaves the State account as it was.
C4_InitializeOneShot ==
    [][(state.initialized /\ last'.op = "initialize")
        => (last'.result = "AlreadyInitialized" /\ state' = state)]_vars

\* C4's case: a second initialize, by another caller with another bump, was
\* rejected on a vault that holds deposits.
C4_Witness ==
    /\ last.op = "initialize"
    /\ last.result = "AlreadyInitialized"
    /\ last.caller # state.authority
    /\ last.bump # state.bump
    /\ state.total_deposited > 0

\* C5: the bump stored by a successful initialize re-derives the address of
\* the State account, so that the seeds constraints of Deposit and Withdraw
\* pass.
C5_StoredBumpDerivesStateKey ==
    state.initialized
        => (derive_signing_identity(state.bump) = state_key
            /\ Deposit(state) = "Ok" /\ Withdraw(state) = "Ok")

\* C6: when deposit's token::transfer fails, deposit fails with the
\* transfer's error and the State account and the balances are unchanged;
\* total_deposited changes only in a deposit whose transfer succeeded.
C6_TransferFailurePropagated ==
    [][/\ (last'.op = "deposit" /\ Len(last'.cpi) = 1
            /\ TransferResult # "Ok")
            => (last'.result = TransferResult /\ state' = state
                /\ balance' = balance)
       /\ (state.initialized
            /\ state'.total_deposited # state.total_deposited)
            => (last'.op = "deposit" /\ Len(last'.cpi) = 1
                /\ TransferResult = "Ok")]_vars

\* C6's case: a deposit of more than the source account holds reached the
\* transfer, which failed.
C6_Witness ==
    /\ last.op = "deposit"
    /\ Len(last.cpi) = 1
    /\ last.result = "InsufficientFunds"
    /\ last.amount > balance[last.cpi[1].from]
    /\ state.total_deposited > 0

\* C7: withdraw leaves the State account as it was, whoever calls it, for
\* every amount and every outcome.
C7_WithdrawKeepsState ==
    [][last'.op = "withdraw" => state' = state]_vars

\* C7's case: the authority withdrew a positive amount from the vault's
\* token account and total_deposited is still positive.
C7_Witness ==
    /\ last.op = "withdraw"
    /\ last.result = "Ok"
    /\ last.amount > 0
    /\ Len(last.cpi) = 1
    /\ last.cpi[1].from = "vault_tokens"
    /\ last.cpi[1].to = "user_tokens"
    /\ state.total_deposited >= last.amount

\* C8: the authority is the caller of the successful initialize and never
\* changes afterwards.
C8_AuthorityImmutable ==
    [][/\ (~state.initialized /\ state'.initialized)
            => (last'.op = "initialize" /\ state'.authority = last'.caller)
       /\ state.initialized
            => (state'.initialized /\ state'.authority = state.authority)]_vars

\* C8's case: after deposits, the other signer has called withdraw and the
\* authority is still the one that initialized.
C8_Witness ==
    /\ state.initialized
    /\ state.authority = Alice
    /\ state.total_deposited > 0
    /\ last.op = "withdraw"
    /\ last.caller = Bob

\* C9: no transaction on an Active vault makes total_deposited smaller.
C9_TotalMonotonic ==
    [][state.initialized
        => state'.total_deposited >= state.total_deposited]_vars

\* C10: withdraw's transfer is authorized by the address derived from "state"
\* and the stored bump, signed for with those seeds, never by the human
\* authority; deposit's transfer is authorized by the depositor, never by
\* the derived address.
C10_TransferAuthorizers ==
    /\ (last.op = "withdraw" /\ Len(last.cpi) > 0)
        => /\ last.cpi[1].authority = derive_signing_identity(state.bump)
           /\ last.cpi[1].authority.kind = "pda"
           /\ last.cpi[1].seeds = <<state.bump>>
           /\ last.cpi[1].authority # state.authority
    /\ (last.op = "deposit" /\ Len(last.cpi) > 0)
        => /\ last.cpi[1].authority = last.caller
           /\ last.cpi[1].seeds = <<>>
           /\ last.cpi[1].authority # derive_signing_identity(state.bump)

\* C10's case: a withdrawal by the authority went through.
C10_Witness ==
    /\ last.op = "withdraw"
    /\ last.caller = state.authority
    /\ last.result = "Ok"
    /\ last.amount > 0
    /\ Len(last.cpi) = 1

\* The balances after `amount` has moved from account `from` to account `to`
\* (no change when they are the same account).
Moved(bal, from, to, amount) ==
    [bal EXCEPT ![from] = @ - amount, ![to] = @ + amount]

\* C11: initialize on an Uninitialized vault succeeds and creates the State
\* account with authority = caller, bump = the argument and total_deposited
\* = 0; it calls token::transfer zero times and changes no token balance.
C11_InitializeCreatesState ==
    [][(last'.op = "initialize" /\ ~state.initialized)
        => /\ last'.result = "Ok"
           /\ state' = [initialized |-> TRUE, authority |-> last'.caller,
                        bump |-> last'.bump, total_deposited |-> 0]
           /\ Len(last'.cpi) = 0
           /\ balance' = balance]_vars

\* C11's case: Bob has just initialized the vault with a bump.
C11_Witness ==
    /\ last.op = "initialize"
    /\ last.result = "Ok"
    /\ last.caller = Bob
    /\ state.initialized
    /\ state.authority = Bob
    /\ state.bump = last.bump

\* C12: on an Active vault, whatever bump it was initialized with, a withdraw
\* by the authority from the vault's token account of an amount that account
\* holds returns Ok, calls token::transfer once with the derived address as
\* authority, and moves exactly the amount to the destination.
C12_AuthorityWithdrawSucceeds ==
    [][(state.initialized /\ last'.op = "withdraw"
            /\ last'.caller = state.authority
            /\ last'.vault_token_account = "vault_tokens"
            /\ last'.amount <= balance["vault_tokens"])
        => /\ last'.result = "Ok"
           /\ Len(last'.cpi) = 1
           /\ last'.cpi[1].authority = derive_signing_identity(state.bump)
           /\ balance' = Moved(balance, "vault_tokens",
                               last'.user_token_account, last'.amount)]_vars

\* C13: an Active vault stays Active, and on an Uninitialized vault every
\* deposit and withdraw fails with NotFound, calls token::transfer zero
\* times and changes neither the State account nor a balance.
C13_Lifecycle ==
    [][/\ state.initialized => state'.initialized
       /\ (~state.initialized /\ last'.op \in {"deposit", "withdraw"})
            => (last'.result = "NotFound" /\ Len(last'.cpi) = 0
                /\ state' = state /\ balance' = balance)]_vars

\* C13's case: a deposit of a positive amount was attempted before any
\* initialize.
C13_Witness ==
    /\ ~state.initialized
    /\ last.op = "deposit"
    /\ last.amount > 0
    /\ last.result = "NotFound"

\* C14: on an Active vault, a withdraw by the authority of more than the
\* vault's token account holds still calls token::transfer; the call fails
\* with the token program's InsufficientFunds, no balance changes, and no
\* balance is ever negative.
C14_OverdrawReachesTransfer ==
    [][/\ (state.initialized /\ last'.op = "withdraw"
            /\ last'.caller = state.authority
            /\ last'.vault_token_account = "vault_tokens"
            /\ last'.amount > balance["vault_tokens"])
            => (Len(last'.cpi) = 1 /\ last'.result = "InsufficientFunds"
                /\ balance' = balance)
       /\ \A a \in TokenAccounts : balance'[a] >= 0]_vars

\* C15: deposits on the same vault are serialized, so that every deposit
\* whose transfer succeeds adds exactly its amount to the total the deposit
\* before it left: after deposits of a1..ak the total is the initial value
\* plus a1 + ... + ak.
C15_NoLostDeposit ==
    [][(state.initialized /\ last'.op = "deposit" /\ Len(last'.cpi) = 1
            /\ TransferResult = "Ok")
        => state'.total_deposited = state.total_deposited + last'.amount]_vars

\* C16: a handler that runs makes at most one token::transfer call and at
\* most one change of the State account: initialize no call and the creation
\* of the account, deposit exactly one call and at most a change of
\* total_deposited, withdraw at most one call and no change; initialize
\* moves no tokens.  A transaction rejected by its account constraints makes
\* no call and no change.
C16_OneTransferOneWrite ==
    [][/\ (last'.op = "initialize" /\ Initialize(state) = "Ok")
            => (Len(last'.cpi) = 0 /\ state' # state /\ balance' = balance)
       /\ (last'.op = "deposit" /\ Deposit(state) = "Ok")
            => (Len(last'.cpi) = 1
                /\ state' = [state EXCEPT
                               !.total_deposited = state'.total_deposited])
       /\ (last'.op = "withdraw" /\ Withdraw(state) = "Ok")
            => (Len(last'.cpi) <= 1 /\ state' = state)
       /\ (\/ (last'.op = "initialize" /\ Initialize(state) # "Ok")
           \/ (last'.op = "deposit" /\ Deposit(state) # "Ok")
           \/ (last'.op = "withdraw" /\ Withdraw(state) # "Ok"))
            => (Len(last'.cpi) = 0 /\ state' = state
                /\ balance' = balance)]_vars

\* C16's case: a deposit ran, its one transfer failed, and total_deposited
\* holds earlier deposits.
C16_Witness ==
    /\ last.op = "deposit"
    /\ Len(last.cpi) = 1
    /\ last.result = "TransferUnauthorized"
    /\ state.total_deposited > 0

\* C17: on an Active vault deposit(0) is not rejected: it calls
\* token::transfer with amount 0, returns Ok when that call does, and leaves
\* total_deposited and the balances unchanged; a deposit of more than the
\* source account holds calls token::transfer and fails with its error.
C17_NoAmountValidation ==
    [][/\ (state.initialized /\ last'.op = "deposit" /\ last'.amount = 0)
            => /\ last'.result # "InvalidAmount"
               /\ Len(last'.cpi) = 1
               /\ last'.cpi[1].amount = 0
               /\ (TransferResult = "Ok" => last'.result = "Ok")
               /\ state'.total_deposited = state.total_deposited
               /\ balance' = balance
       /\ (state.initialized /\ last'.op = "deposit"
            /\ last'.amount > balance[last'.user_token_account])
            => /\ Len(last'.cpi) = 1
               /\ last'.result = "InsufficientFunds"]_vars

\* C18: a successful deposit raises the balance of the vault's token account
\* by as much as it raises total_deposited, whichever token accounts the
\* caller names.
C18_DepositCreditsVault ==
    [][(state.initialized /\ last'.op = "deposit" /\ last'.result = "Ok")
        => balance'["vault_tokens"] - balance["vault_tokens"]
            = state'.total_deposited - state.total_deposited]_vars

\* The tokens in all token accounts.
Supply(bal) == bal["user_tokens"] + bal["vault_tokens"]

\* C19: the tokens in all accounts stay what they were at the start; a
\* successful deposit moves exactly the amount from user_token_account to
\* vault_token_account, a successful withdraw from vault_token_account to
\* user_token_account, and initialize and every failed transaction change
\* no balance.
C19_TokenConservation ==
    [][/\ Supply(balance) = U64_MAX
       /\ Supply(balance') = Supply(balance)
       /\ (last'.op = "deposit" /\ last'.result = "Ok")
            => balance' = Moved(balance, last'.user_token_account,
                                last'.vault_token_account, last'.amount)
       /\ (last'.op = "withdraw" /\ last'.result = "Ok")
            => balance' = Moved(balance, last'.vault_token_account,
                                last'.user_token_account, last'.amount)
       /\ (last'.op = "initialize" \/ last'.result # "Ok")
            => balance' = balance]_vars

\* C19's case: after a deposit into the vault's token account, a withdrawal
\* has moved part of it back and the rest is still in the vault.
C19_Witness ==
    /\ last.op = "withdraw"
    /\ last.result = "Ok"
    /\ last.amount > 0
    /\ last.vault_token_account = "vault_tokens"
    /\ last.user_token_account = "user_tokens"
    /\ balance["vault_tokens"] > 0

====
